---- MODULE Spec2Model ----
(***************************************************************************)
(* Blood supply management: the synthetic dataset generator                *)
(* (src/src/generate_datasets.py) and the analytics helpers                *)
(* (src/src/utils.py).                                                     *)
(*                                                                         *)
(* The program is a set of functions called one after another by a         *)
(* single-threaded script.  A state of the model is the function called    *)
(* last (call), the arguments it was called with (args, which include the  *)
(* values the function reads from its environment: the stream of the       *)
(* seeded random generator and the wall clock) and what it returned or     *)
(* raised (ret).  prev keeps the call and the result of the preceding      *)
(* process run when the same generation is run a second time.              *)
(*                                                                         *)
(* Numbers.  Python floats are modelled by exact rationals: a real draw is *)
(* an integer count of a fixed unit (thousandths, tenths, ...), a product  *)
(* of multipliers is a numerator/denominator pair, int() is truncation     *)
(* toward zero of the exact quotient, and a ratio the code returns is the  *)
(* pair [num, den].  A seeded random generator is the sequence of values   *)
(* its draws return: the same seed is the same sequence.                   *)
(***************************************************************************)
EXTENDS Integers, Sequences, FiniteSets, TLC

VARIABLES call, args, ret, prev

vars == <<call, args, ret, prev>>

None == [none |-> TRUE]

\* No function has been called since the module was imported or since the
\* last result was dropped.
Idle == call = "import"

\* A raised exception: the function produced no value.
Raise(exc) == [error |-> exc]

IsError(r) == "error" \in DOMAIN r

(***************************************************************************)
(* Bounds of the model.                                                    *)
(***************************************************************************)
\* Rows of the table given to calculate_rfm_scores.
MaxRows == 5

\* Donors asked of generate_donor_registry.
MaxDonors == 2

\* Days asked of generate_demand_timeseries.
MaxPeriods == 1

\* Rows of the daily-demand table given to generate_supply_data.
MaxSupplyRows == 2

\* Length of the demand and the supply series given to
\* calculate_inventory_metrics.
MaxSeries == 2

(***************************************************************************)
(* Arithmetic helpers.                                                     *)
(***************************************************************************)
Min(a, b) == IF a <= b THEN a ELSE b

Max(a, b) == IF a >= b THEN a ELSE b

\* Python's int() of the exact quotient n / d (d > 0): truncation toward
\* zero, where TLA+'s \div rounds toward minus infinity.
Trunc(n, d) == IF n >= 0 THEN n \div d ELSE 0 - ((0 - n) \div d)

RECURSIVE SumSeq(_)
SumSeq(s) == IF s = <<>> THEN 0 ELSE Head(s) + SumSeq(Tail(s))

\* All sequences over S of length lo..hi.
SeqsOf(S, lo, hi) == UNION {[1..n -> S] : n \in lo..hi}

(***************************************************************************)
(* utils.py: assign_rfm_segment                                            *)
(***************************************************************************)
Scores == 1..5

\* The mutant tests F <= 2 where the code tests F == 1 for "New".
assign_rfm_segment_NewWidened(row) ==
    LET r == row.R_Score
        f == row.F_Score
    IN  IF r >= 4 /\ f >= 4 THEN "Champions"
        ELSE IF r >= 3 /\ f >= 3 THEN "Loyal"
        ELSE IF r >= 4 /\ f <= 2 THEN "New"
        ELSE IF r <= 2 /\ f >= 3 THEN "At Risk"
        ELSE IF r <= 2 /\ f <= 2 THEN "Hibernating"
        ELSE "Potential"

assign_rfm_segment(row) ==
    LET r == row.R_Score
        f == row.F_Score
        m == row.M_Score
    IN  IF r >= 4 /\ f >= 4 THEN "Champions"
        ELSE IF r >= 3 /\ f >= 3 THEN "Loyal"
        ELSE IF r >= 4 /\ f = 1 THEN "New"
        ELSE IF r <= 2 /\ f >= 3 THEN "At Risk"
        ELSE IF r <= 2 /\ f <= 2 THEN "Hibernating"
        ELSE "Potential"

ScoreRows == [R_Score : Scores, F_Score : Scores, M_Score : Scores]

AssignRfmSegment ==
    /\ Idle
    /\ \E row \in ScoreRows :
        /\ call' = "assign_rfm_segment"
        /\ args' = [row |-> row]
        /\ ret' = [segment |-> assign_rfm_segment(row)]
        /\ prev' = None

(***************************************************************************)
(* utils.py: calculate_rfm_scores                                          *)
(*                                                                         *)
(* pd.qcut(x, q=5, labels=L, duplicates='drop'):                           *)
(*   the bin edges are the quantiles 0, 0.2, .. 1 of x by linear           *)
(*   interpolation between order statistics; repeated edges are dropped;   *)
(*   with fewer than 6 edges left the 5 labels no longer fit the bins and  *)
(*   pandas raises ValueError("Bin labels must be one fewer than the       *)
(*   number of bin edges"); otherwise a value v falls in bin i when        *)
(*   edge[i-1] < v <= edge[i], the lowest edge belonging to bin 1.         *)
(* Edges are kept multiplied by 5, which makes them integers.              *)
(***************************************************************************)
\* The values of s in ascending order (s has at least one element).
RECURSIVE SortValues(_)
SortValues(s) ==
    IF s = <<>> THEN <<>>
    ELSE LET i == CHOOSE k \in 1..Len(s) : \A j \in 1..Len(s) : s[k] <= s[j]
             rest == [j \in 1..(Len(s) - 1) |-> IF j < i THEN s[j] ELSE s[j + 1]]
         IN  <<s[i]>> \o SortValues(rest)

\* 5 * (the k/5 quantile of x), Series.quantile's linear interpolation:
\* position (n-1)*k/5 among the order statistics.
Quantile5(x, k) ==
    LET s == SortValues(x)
        pos == (Len(x) - 1) * k
        i == pos \div 5
        r == pos % 5
    IN  IF r = 0 THEN 5 * s[i + 1]
        ELSE 5 * s[i + 1] + r * (s[i + 2] - s[i + 1])

\* The six edges in ascending order with repeats dropped (duplicates='drop').
RECURSIVE DropDuplicates(_)
DropDuplicates(e) ==
    IF Len(e) <= 1 THEN e
    ELSE IF e[1] = e[2] THEN DropDuplicates(Tail(e))
    ELSE <<e[1]>> \o DropDuplicates(Tail(e))

BinEdges5(x) == DropDuplicates([k \in 1..6 |-> Quantile5(x, k - 1)])

\* The bin of value v: the number of edges below v, the lowest edge itself
\* counted into bin 1 (include_lowest).
BinOf(bins, v) ==
    IF 5 * v = bins[1] THEN 1
    ELSE Cardinality({i \in 1..Len(bins) : bins[i] < 5 * v})

\* The mutant keeps pd.qcut's default ascending labels for every column.
qcut_LabelsIgnored(x, labels) ==
    LET bins == BinEdges5(x)
    IN  IF Len(bins) - 1 # Len(labels) THEN Raise("ValueError")
        ELSE [codes |-> [i \in 1..Len(x) |-> BinOf(bins, x[i])]]

qcut(x, labels) ==
    LET bins == BinEdges5(x)
    IN  IF Len(bins) - 1 # Len(labels) THEN Raise("ValueError")
        ELSE [codes |-> [i \in 1..Len(x) |-> labels[BinOf(bins, x[i])]]]

\* Series.rank(method='first'): ties are ranked in their order of appearance.
RankFirst(x) ==
    [i \in 1..Len(x) |->
        1 + Cardinality({j \in 1..Len(x) : x[j] < x[i]})
          + Cardinality({j \in 1..(i - 1) : x[j] = x[i]})]

Column(df, col) == [i \in 1..Len(df) |-> df[i][col]]

calculate_rfm_scores(df) ==
    LET R == qcut(Column(df, "Recency"), <<5, 4, 3, 2, 1>>)
        F == qcut(RankFirst(Column(df, "Frequency")), <<1, 2, 3, 4, 5>>)
        M == qcut(RankFirst(Column(df, "Monetary")), <<1, 2, 3, 4, 5>>)
    IN  IF IsError(R) THEN R
        ELSE IF IsError(F) THEN F
        ELSE IF IsError(M) THEN M
        ELSE [df |-> [i \in 1..Len(df) |->
                 [Recency |-> df[i].Recency,
                  Frequency |-> df[i].Frequency,
                  Monetary |-> df[i].Monetary,
                  R_Score |-> R.codes[i],
                  F_Score |-> F.codes[i],
                  M_Score |-> M.codes[i],
                  RFM_Score |-> ToString(R.codes[i]) \o ToString(F.codes[i])
                                  \o ToString(M.codes[i])]]]

\* The rows a table is drawn from: (Recency, Frequency) pairs with
\* Monetary = Frequency * 450, as generate_rfm_dataset builds them.
RfmRowValues ==
    {[Recency |-> p[1], Frequency |-> p[2], Monetary |-> p[2] * 450] :
        p \in {<<0, 1>>, <<0, 2>>, <<1, 3>>, <<2, 1>>, <<3, 2>>}}

CalculateRfmScores ==
    /\ Idle
    /\ \E df \in SeqsOf(RfmRowValues, 1, MaxRows) :
        /\ call' = "calculate_rfm_scores"
        /\ args' = [df |-> df]
        /\ ret' = calculate_rfm_scores(df)
        /\ prev' = None

(***************************************************************************)
(* pandas.DataFrame: the set of its columns and the sequence of its rows.  *)
(* pd.DataFrame([]) has no rows and no columns.                            *)
(***************************************************************************)
DataFrame(columns, rows) == [columns |-> columns, rows |-> rows]

EmptyFrame == DataFrame({}, <<>>)

(***************************************************************************)
(* generate_datasets.py: generate_donor_registry                           *)
(*                                                                         *)
(* np_random is the stream the module-level np.random.seed(42) leaves      *)
(* behind: entry i holds what the draws of donor i return.  Only the draws *)
(* that decide the donation history are kept (age, gender, blood type,     *)
(* city, deferral and the Faker fields are drawn from the same seeded      *)
(* streams and feed no other field).  now is the wall clock in hours,      *)
(* which the three datetime.now() reads of one iteration all return.       *)
(***************************************************************************)
VOLUME_PER_DONATION == 450

MAX_DONATIONS == 50

MAX_MONTHS_SINCE_FIRST == 120

DONATION_INTERVAL_DAYS == 56

\* np.random.randint(0, 6) of a first-time donor.
FirstTimeMonthsDraws == {0, 1, 3, 4}

\* int(np.random.pareto(1.5) * 3), np.random.randint(3, 8) and
\* int(np.random.exponential(6)) of a repeat donor.
ParetoDraws == {0, 60}

RandintDraws == {3, 7}

ExponentialDraws == {1, 2, 200}

DonorDraws ==
    [is_first_time : {TRUE}, randint_0_6 : FirstTimeMonthsDraws,
     pareto_x3 : {0}, randint_3_8 : {3}, exponential : {0}]
    \cup
    [is_first_time : {FALSE}, randint_0_6 : {0},
     pareto_x3 : ParetoDraws, randint_3_8 : RandintDraws,
     exponential : ExponentialDraws]

\* Wall-clock instants (hours): 10:00 and 23:00 of one day, 10:00 of the next.
NowValues == {10, 23, 34}

\* datetime.strftime('%Y-%m-%d'): the calendar day of an instant.
StrftimeDay(t) == t \div 24

\* timedelta.days of the difference of two instants.
TimedeltaDays(later, earlier) == (later - earlier) \div 24

\* instant - timedelta(days=d)
MinusDays(t, d) == t - 24 * d

\* f'D{str(i).zfill(5)}' for i < 10
DonorId(i) == "D0000" \o ToString(i)

\* The mutant compares the months, not the days, with the 56-day interval.
availability_MonthsCompared(now, last_donation, months_since_last) ==
    IF months_since_last >= DONATION_INTERVAL_DAYS
    THEN "Available" ELSE "Not Eligible"

availability_status(now, last_donation, months_since_last) ==
    LET days_since_last == TimedeltaDays(now, last_donation)
    IN  IF days_since_last >= DONATION_INTERVAL_DAYS
        THEN "Available" ELSE "Not Eligible"

\* One iteration of the loop: donor i (1-based) from its draws.
Donor(i, d, now) ==
    LET total_donations ==
            IF d.is_first_time THEN 1
            ELSE Min(d.pareto_x3 + 2, MAX_DONATIONS)
        months_since_first ==
            IF d.is_first_time THEN d.randint_0_6
            ELSE Min(total_donations * d.randint_3_8, MAX_MONTHS_SINCE_FIRST)
        months_since_last ==
            IF d.is_first_time THEN months_since_first
            ELSE Min(d.exponential, months_since_first)
        reg_date == MinusDays(now, months_since_first * 30)
        last_donation == MinusDays(now, months_since_last * 30)
    IN  [donor_id |-> DonorId(i),
         registration_date |-> StrftimeDay(reg_date),
         last_donation_date |-> StrftimeDay(last_donation),
         total_donations |-> total_donations,
         total_volume_cc |-> total_donations * VOLUME_PER_DONATION,
         months_since_first_donation |-> months_since_first,
         months_since_last_donation |-> months_since_last,
         availability_status |->
             availability_status(now, last_donation, months_since_last),
         is_first_time_donor |-> d.is_first_time]

DonorColumns ==
    {"donor_id", "registration_date", "last_donation_date", "total_donations",
     "total_volume_cc", "months_since_first_donation",
     "months_since_last_donation", "availability_status",
     "is_first_time_donor"}

\* range(n_donors) is empty for n_donors <= 0 and pd.DataFrame([]) is the
\* frame without rows and columns: nothing is rejected.
generate_donor_registry(n_donors, np_random, now) ==
    IF n_donors <= 0 THEN EmptyFrame
    ELSE DataFrame(DonorColumns,
                   [i \in 1..n_donors |-> Donor(i, np_random[i], now)])

\* The draws a call with n_donors consumes.
DonorStreams(n_donors) ==
    IF n_donors <= 0 THEN {<<>>} ELSE [1..n_donors -> DonorDraws]

GenerateDonorRegistry ==
    /\ Idle
    /\ \E n_donors \in -1..MaxDonors, now \in NowValues :
        \E np_random \in DonorStreams(n_donors) :
            /\ call' = "generate_donor_registry"
            /\ args' = [n_donors |-> n_donors, np_random |-> np_random,
                        now |-> now]
            /\ ret' = generate_donor_registry(n_donors, np_random, now)
            /\ prev' = None

\* A second run of the script: the import seeds the generator again, so the
\* stream is the one of the first run, the parameters are the same, and the
\* wall clock has not gone back.
RerunDonorRegistry ==
    \E now \in NowValues :
        /\ call = "generate_donor_registry"
        /\ prev = None
        /\ now >= args.now
        /\ call' = call
        /\ args' = [args EXCEPT !.now = now]
        /\ ret' = generate_donor_registry(args.n_donors, args.np_random, now)
        /\ prev' = [args |-> args, ret |-> ret]

(***************************************************************************)
(* generate_datasets.py: generate_rfm_dataset                              *)
(***************************************************************************)
RfmSourceColumns ==
    {"donor_id", "months_since_last_donation", "total_donations",
     "total_volume_cc", "months_since_first_donation"}

RfmColumns ==
    {"donor_id", "Recency", "Frequency", "Monetary", "Time",
     "donated_last_quarter"}

\* The mutant labels Recency < 3 where the code labels Recency <= 3.
donated_last_quarter_Strict(Recency) == IF Recency < 3 THEN 1 ELSE 0

donated_last_quarter(Recency) == IF Recency <= 3 THEN 1 ELSE 0

RfmRow(donor) ==
    [donor_id |-> donor.donor_id,
     Recency |-> donor.months_since_last_donation,
     Frequency |-> donor.total_donations,
     Monetary |-> donor.total_volume_cc,
     Time |-> donor.months_since_first_donation,
     donated_last_quarter |->
         donated_last_quarter(donor.months_since_last_donation)]

\* The column selection raises KeyError on a frame without the columns; it
\* is made on a copy, so the caller's frame (donor_df of the result) is the
\* frame that was passed.
generate_rfm_dataset(donor_df) ==
    IF ~(RfmSourceColumns \subseteq donor_df.columns) THEN Raise("KeyError")
    ELSE [rfm_df |-> DataFrame(RfmColumns,
                        [i \in 1..Len(donor_df.rows) |-> RfmRow(donor_df.rows[i])]),
          donor_df |-> donor_df]

\* main() derives the RFM table from the registry it has just generated;
\* the derivation can be run again on the same registry.
GenerateRfmDataset ==
    /\ \/ /\ call = "generate_donor_registry"
          /\ args' = [donor_df |-> ret]
          /\ ret' = generate_rfm_dataset(ret)
          /\ prev' = None
       \/ /\ call = "generate_rfm_dataset"
          /\ ~IsError(ret)
          /\ prev = None
          /\ args' = [donor_df |-> ret.donor_df]
          /\ ret' = generate_rfm_dataset(ret.donor_df)
          /\ prev' = [args |-> args, ret |-> ret]
    /\ call' = "generate_rfm_dataset"

(***************************************************************************)
(* generate_datasets.py: generate_demand_timeseries                        *)
(*                                                                         *)
(* A date is the number of days since 2021-01-01 (a Friday); 2021, 2022    *)
(* and 2023 have 365 days.  np_random holds what the draws of one          *)
(* (date, component) iteration return; every iteration of a run draws the  *)
(* same values:                                                            *)
(*   normal_base  np.random.normal(0, base * 0.15) in units of its         *)
(*                standard deviation (the draw is normal_base * 0.15 * base),  *)
(*   spike        0 when np.random.random() >= 0.02, else                  *)
(*                np.random.uniform(1.5, 2.5) in tenths,                   *)
(*   normal_type  np.random.normal(0, 1) of the blood types, in            *)
(*                thousandths; the eight draws repeat with period 2.       *)
(***************************************************************************)
DaysInMonth == <<31, 28, 31, 30, 31, 30, 31, 31, 30, 31, 30, 31>>

RECURSIVE DaysBefore(_)
DaysBefore(m) == IF m = 1 THEN 0 ELSE DaysBefore(m - 1) + DaysInMonth[m - 1]

\* Timestamp.month, Timestamp.day, Timestamp.dayofweek (Monday is 0).
MonthOf(date) ==
    CHOOSE m \in 1..12 :
        /\ DaysBefore(m) <= date % 365
        /\ date % 365 < DaysBefore(m) + DaysInMonth[m]

DayOf(date) == (date % 365) - DaysBefore(MonthOf(date)) + 1

DayOfWeek(date) == (date + 4) % 7

\* base_demand, in the order the dictionary is iterated.
Components ==
    <<"Packed RBC", "Platelets", "Fresh Frozen Plasma", "Cryoprecipitate">>

base_demand ==
    [c \in {Components[i] : i \in 1..4} |->
        CASE c = "Packed RBC" -> 80
          [] c = "Platelets" -> 30
          [] c = "Fresh Frozen Plasma" -> 25
          [] c = "Cryoprecipitate" -> 10]

\* BLOOD_TYPE_DISTRIBUTION, in thousandths, in the order it is iterated.
BloodTypes == <<"O+", "A+", "B+", "AB+", "O-", "A-", "B-", "AB-">>

BLOOD_TYPE_DISTRIBUTION == <<370, 280, 200, 50, 60, 25, 15, 10>>

\* A multiplier as a numerator/denominator pair.
Times(q, n, d) == [num |-> q.num * n, den |-> q.den * d]

\* The demand of one (date, component) before the blood-type breakdown.
ComponentDemand(date, base, draw) ==
    LET day_of_week == DayOfWeek(date)
        month == MonthOf(date)
        day == DayOf(date)
        d0 == [num |-> base * (100 + 15 * draw.normal_base), den |-> 100]
        d1 == IF day_of_week >= 5 THEN Times(d0, 7, 10) ELSE d0
        d2 == IF month \in {6, 7, 8} THEN Times(d1, 11, 10) ELSE d1
        d3 == IF month \in {12, 1, 2} THEN Times(d2, 23, 20) ELSE d2
        d4 == IF (month = 12 /\ day >= 20) \/ (month = 1 /\ day <= 5)
              THEN Times(d3, 5, 4) ELSE d3
        d5 == IF month \in {10, 11} /\ 15 <= day /\ day <= 30
              THEN Times(d4, 6, 5) ELSE d4
        d6 == IF draw.spike # 0 THEN Times(d5, draw.spike, 10) ELSE d5
    IN  Max(1, Trunc(d6.num, d6.den))

\* The mutant truncates without the max(1, .) clamp.
type_demand_Unclamped(demand, proportion, noise) ==
    Trunc(demand * proportion + noise, 1000)

type_demand(demand, proportion, noise) ==
    Max(1, Trunc(demand * proportion + noise, 1000))

\* The eight rows one (date, component) iteration appends to data.
DemandBlock(date, component, draw) ==
    LET demand == ComponentDemand(date, base_demand[component], draw)
        day_of_week == DayOfWeek(date)
        month == MonthOf(date)
    IN  [t \in 1..8 |->
            [date |-> date,
             component |-> component,
             blood_type |-> BloodTypes[t],
             demand_units |->
                 type_demand(demand, BLOOD_TYPE_DISTRIBUTION[t],
                             draw.normal_type[((t - 1) % 2) + 1]),
             day_of_week |-> day_of_week,
             month |-> month,
             is_weekend |-> IF day_of_week >= 5 THEN 1 ELSE 0,
             is_holiday_season |-> IF month \in {11, 12} THEN 1 ELSE 0]]

\* data after the loops: dates outermost, then components, then blood types.
RECURSIVE DemandData(_, _, _, _)
DemandData(start_date, periods, draw, k) ==
    IF k > periods * 4 THEN <<>>
    ELSE DemandBlock(start_date + ((k - 1) \div 4),
                     Components[((k - 1) % 4) + 1], draw)
         \o DemandData(start_date, periods, draw, k + 1)

\* groupby sorts its keys: dates ascending, component names alphabetically.
ComponentsSorted ==
    <<"Cryoprecipitate", "Fresh Frozen Plasma", "Packed RBC", "Platelets">>

GroupRows(rows, date, component) ==
    SelectSeq(rows, LAMBDA r : r.date = date /\ r.component = component)

AggregateUnits(group) ==
    SumSeq([i \in 1..Len(group) |-> group[i].demand_units])

\* df.groupby(['date', 'component']).agg(...).reset_index()
DailyAggregate(rows) ==
    LET dates == {rows[i].date : i \in 1..Len(rows)}
        first == CHOOSE d \in dates : \A e \in dates : d <= e
        last == CHOOSE d \in dates : \A e \in dates : d >= e
        keys == [k \in 1..((last - first + 1) * 4) |->
                    [date |-> first + ((k - 1) \div 4),
                     component |-> ComponentsSorted[((k - 1) % 4) + 1]]]
        present == SelectSeq(keys,
                       LAMBDA key : GroupRows(rows, key.date, key.component) # <<>>)
    IN  [k \in 1..Len(present) |->
            LET group == GroupRows(rows, present[k].date, present[k].component)
            IN  [date |-> present[k].date,
                 component |-> present[k].component,
                 demand_units |-> AggregateUnits(group),
                 day_of_week |-> group[1].day_of_week,
                 month |-> group[1].month,
                 is_weekend |-> group[1].is_weekend,
                 is_holiday_season |-> group[1].is_holiday_season]]

DemandColumns ==
    {"date", "component", "blood_type", "demand_units", "day_of_week", "month",
     "is_weekend", "is_holiday_season"}

\* pd.date_range with periods = 0 is empty, data stays [], pd.DataFrame([])
\* has no columns and groupby(['date', 'component']) raises KeyError; a
\* negative periods is refused by pd.date_range (ValueError) or, in pandas
\* versions that return an empty range, ends in the same KeyError.
generate_demand_timeseries(start_date, periods, draw, negative_periods_error) ==
    IF periods < 0 THEN Raise(negative_periods_error)
    ELSE IF periods = 0 THEN Raise("KeyError")
    ELSE LET data == DemandData(start_date, periods, draw, 1)
         IN  [df |-> DataFrame(DemandColumns, data),
              df_daily |-> DataFrame(DemandColumns \ {"blood_type"},
                                     DailyAggregate(data))]

\* Fri 1 Jan, Sat 2 Jan, Tue 13 Apr, Wed 16 Jun, Sat 16 Oct and
\* Mon 20 Dec 2021.
StartDates == {0, 1, 102, 166, 288, 353}

\* -8 and -7 standard deviations make the demand negative before the clamp.
NormalBaseDraws == {-8, -7, 0, 2}

SpikeDraws == {0, 15, 25}

NormalTypeDraws == {-2500, 0, 900}

DemandDraws ==
    [normal_base : NormalBaseDraws, spike : SpikeDraws,
     normal_type : [1..2 -> NormalTypeDraws]]

\* The draws a call with periods consumes.
DemandStreams(periods) == IF periods <= 0 THEN {None} ELSE DemandDraws

GenerateDemandTimeseries ==
    /\ Idle
    /\ \E start_date \in StartDates, periods \in -1..MaxPeriods :
        \E np_random \in DemandStreams(periods),
           exc \in IF periods < 0 THEN {"ValueError", "KeyError"}
                                  ELSE {"KeyError"} :
            /\ call' = "generate_demand_timeseries"
            /\ args' = [start_date |-> start_date, periods |-> periods,
                        np_random |-> np_random]
            /\ ret' = generate_demand_timeseries(start_date, periods,
                                                 np_random, exc)
            /\ prev' = None

(***************************************************************************)
(* generate_datasets.py: generate_supply_data                              *)
(*                                                                         *)
(* A row of the input carries, beside the demand, what the two draws of    *)
(* its iteration return, in thousandths: buffer_factor                     *)
(* (np.random.uniform(1.05, 1.20)) and expiry (np.random.uniform(0.01,     *)
(* 0.05)).                                                                 *)
(***************************************************************************)
Zero == [num |-> 0, den |-> 1]

\* Python's n / d.
Divide(n, d) ==
    IF d = 0 THEN Raise("ZeroDivisionError") ELSE [num |-> n, den |-> d]

\* The mutant divides without the supply > 0 guard.
SupplyRate_Unguarded(part, supply) == Divide(part, supply)

SupplyRate(part, supply) == IF supply > 0 THEN Divide(part, supply) ELSE Zero

\* The mutant draws the buffer a tenth lower, from [0.95, 1.10].
supply_units_BufferBelowOne(demand_units, buffer_factor) ==
    Trunc(demand_units * (buffer_factor - 100), 1000)

\* int(row['demand_units'] * buffer_factor)
supply_units(demand_units, buffer_factor) ==
    Trunc(demand_units * buffer_factor, 1000)

SupplyRow(row) ==
    LET supply == supply_units(row.demand_units, row.buffer_factor)
        utilized == Min(supply, row.demand_units)
        expiry_wastage == Trunc(supply * row.expiry, 1000)
        wasted == Max(0, supply - row.demand_units) + expiry_wastage
    IN  [date |-> row.date,
         component |-> row.component,
         supply_units |-> supply,
         demand_units |-> row.demand_units,
         utilized_units |-> utilized,
         wasted_units |-> wasted,
         utilization_rate |-> SupplyRate(utilized, supply),
         wastage_rate |-> SupplyRate(wasted, supply)]

SupplyColumns ==
    {"date", "component", "supply_units", "demand_units", "utilized_units",
     "wasted_units", "utilization_rate", "wastage_rate"}

\* An exception in one iteration ends the function; no rows give
\* pd.DataFrame([]).
generate_supply_data(demand_rows) ==
    LET rows == [i \in 1..Len(demand_rows) |-> SupplyRow(demand_rows[i])]
        failed == {i \in 1..Len(rows) :
                      IsError(rows[i].utilization_rate)
                          \/ IsError(rows[i].wastage_rate)}
    IN  IF failed # {} THEN Raise("ZeroDivisionError")
        ELSE IF rows = <<>> THEN EmptyFrame
        ELSE DataFrame(SupplyColumns, rows)

DemandUnitsValues == {0, 1, 7, 10, 19, 20, 100}

BufferFactorDraws == {1050, 1125, 1200}

ExpiryDraws == {10, 50}

DailyDemandRows ==
    [date : {0}, component : {"Packed RBC"}, demand_units : DemandUnitsValues,
     buffer_factor : BufferFactorDraws, expiry : ExpiryDraws]

GenerateSupplyData ==
    /\ Idle
    /\ \E demand_rows \in SeqsOf(DailyDemandRows, 0, MaxSupplyRows) :
        /\ call' = "generate_supply_data"
        /\ args' = [demand_df |-> demand_rows]
        /\ ret' = generate_supply_data(demand_rows)
        /\ prev' = None

(***************************************************************************)
(* utils.py: calculate_inventory_metrics                                   *)
(***************************************************************************)
\* min(d / s, 1.0)
MinWithOne(q) == IF q.num <= q.den THEN q ELSE [num |-> 1, den |-> 1]

\* max(0, q)
MaxWithZero(q) == IF q.num >= 0 THEN q ELSE Zero

\* The mutant leaves out the min(., 1.0) of the utilization rate.
utilization_rate_Uncapped(total_demand, total_supply) ==
    IF total_supply > 0 THEN Divide(total_demand, total_supply) ELSE Zero

utilization_rate(total_demand, total_supply) ==
    IF total_supply > 0 THEN MinWithOne(Divide(total_demand, total_supply))
    ELSE Zero

calculate_inventory_metrics(demand, supply) ==
    LET d == SumSeq(demand)
        s == SumSeq(supply)
    IN  [total_demand |-> d,
         total_supply |-> s,
         utilization_rate |-> utilization_rate(d, s),
         shortage_risk |->
             IF d > 0 THEN MaxWithZero(Divide(d - s, d)) ELSE Zero,
         wastage_risk |->
             IF s > 0 THEN MaxWithZero(Divide(s - d, s)) ELSE Zero]

UnitsValues == {0, 1, 3}

CalculateInventoryMetrics ==
    /\ Idle
    /\ \E demand \in SeqsOf(UnitsValues, 0, MaxSeries),
       supply \in SeqsOf(UnitsValues, 0, MaxSeries) :
        /\ call' = "calculate_inventory_metrics"
        /\ args' = [demand |-> demand, supply |-> supply]
        /\ ret' = calculate_inventory_metrics(demand, supply)
        /\ prev' = None

Init ==
    /\ call = "import"
    /\ args = None
    /\ ret = None
    /\ prev = None

\* The caller drops the result; the next call starts from the imported module.
Return ==
    /\ ~Idle
    /\ call' = "import"
    /\ args' = None
    /\ ret' = None
    /\ prev' = None

Next ==
    \/ AssignRfmSegment
    \/ CalculateRfmScores
    \/ GenerateDonorRegistry
    \/ RerunDonorRegistry
    \/ GenerateRfmDataset
    \/ GenerateDemandTimeseries
    \/ GenerateSupplyData
    \/ CalculateInventoryMetrics
    \/ Return

Spec == Init /\ [][Next]_vars

(***************************************************************************)
(* Properties.                                                             *)
(***************************************************************************)
Rows(frame) == {frame.rows[i] : i \in 1..Len(frame.rows)}

\* A ratio [num, den] lies in [0, 1].
InUnitInterval(q) == q.den > 0 /\ 0 <= q.num /\ q.num <= q.den

\* C1: assign_rfm_segment returns the segment of the priority order, which
\* as a table over (R, F) is: Champions on {4,5} x {4,5}; Loyal on the rest
\* of {3,4,5} x {3,4,5}; New on {4,5} x {1}; At Risk on {1,2} x {3,4,5};
\* Hibernating on {1,2} x {1,2}; Potential on (3,1), (3,2), (4,2), (5,2).
\* The table does not mention M.
C1_SegmentByPriorityOrder ==
    call = "assign_rfm_segment" =>
        LET R == args.row.R_Score
            F == args.row.F_Score
        IN  /\ ret.segment = "Champions" <=> (R \in {4, 5} /\ F \in {4, 5})
            /\ ret.segment = "Loyal" <=>
                   <<R, F>> \in {<<3, 3>>, <<3, 4>>, <<3, 5>>, <<4, 3>>, <<5, 3>>}
            /\ ret.segment = "New" <=> (R \in {4, 5} /\ F = 1)
            /\ ret.segment = "At Risk" <=> (R \in {1, 2} /\ F \in {3, 4, 5})
            /\ ret.segment = "Hibernating" <=> (R \in {1, 2} /\ F \in {1, 2})
            /\ ret.segment = "Potential" <=>
                   <<R, F>> \in {<<3, 1>>, <<3, 2>>, <<4, 2>>, <<5, 2>>}

\* C1 witness: R=4, F=1 with the highest M is segmented "New".
C1_Witness ==
    /\ call = "assign_rfm_segment"
    /\ args.row = [R_Score |-> 4, F_Score |-> 1, M_Score |-> 5]
    /\ ret.segment = "New"

\* C2 (as claimed): calculate_rfm_scores completes on every table and every
\* row's R_Score, F_Score and M_Score is in 1..5.
C2_ScoresOnEveryTable ==
    call = "calculate_rfm_scores" =>
        /\ ~IsError(ret)
        /\ \A i \in 1..Len(ret.df) :
               /\ ret.df[i].R_Score \in Scores
               /\ ret.df[i].F_Score \in Scores
               /\ ret.df[i].M_Score \in Scores

\* C3 (as claimed): a second run with the same seed and the same parameters
\* returns the donor registry of the first run, whenever it is run.
C3_RerunReproducesRegistry ==
    (call = "generate_donor_registry" /\ prev # None) => ret = prev.ret

\* C4: in every donor record 0 <= months_since_last_donation <=
\* months_since_first_donation, total_volume_cc = total_donations * 450, and
\* availability_status is "Available" exactly when
\* months_since_last_donation * 30 >= 56, "Not Eligible" otherwise.
C4_DonorRecordInvariants ==
    (call = "generate_donor_registry" /\ ~IsError(ret)) =>
        \A d \in Rows(ret) :
            /\ 0 <= d.months_since_last_donation
            /\ d.months_since_last_donation <= d.months_since_first_donation
            /\ d.total_volume_cc = d.total_donations * 450
            /\ d.availability_status \in {"Available", "Not Eligible"}
            /\ d.availability_status = "Available" <=>
                   d.months_since_last_donation * 30 >= 56

\* C4 witness: a registry with a repeat donor who gave last month (30 days,
\* not eligible) next to one whose last donation was two months ago.
C4_Witness ==
    /\ call = "generate_donor_registry"
    /\ \E d \in Rows(ret) :
           /\ d.months_since_last_donation = 1
           /\ d.months_since_first_donation > 1
           /\ d.availability_status = "Not Eligible"
    /\ \E d \in Rows(ret) :
           /\ d.months_since_last_donation = 2
           /\ d.availability_status = "Available"

\* C5: generate_supply_data raises nothing and in every supply row
\* utilized_units <= supply_units, utilization_rate is in [0, 1],
\* wastage_rate >= 0, and both rates are 0 when supply_units is 0.
C5_SupplyRowInvariants ==
    call = "generate_supply_data" =>
        /\ ~IsError(ret)
        /\ Len(ret.rows) = Len(args.demand_df)
        /\ \A r \in Rows(ret) :
               /\ r.utilized_units <= r.supply_units
               /\ InUnitInterval(r.utilization_rate)
               /\ r.wastage_rate.den > 0 /\ r.wastage_rate.num >= 0
               /\ r.supply_units = 0 =>
                      r.utilization_rate.num = 0 /\ r.wastage_rate.num = 0

\* C5 witness: a supply table with a row of zero supply and a row whose
\* supply exceeds its demand.
C5_Witness ==
    /\ call = "generate_supply_data"
    /\ ~IsError(ret)
    /\ \E r \in Rows(ret) : r.demand_units = 0 /\ r.supply_units = 0
    /\ \E r \in Rows(ret) :
           r.supply_units > r.demand_units /\ r.wasted_units > 0

\* C6: every detail row's demand_units is an integer >= 1, and every daily
\* aggregate's demand_units is the sum of the 8 detail rows of its
\* (date, component) group, hence an integer >= 1; every group has its
\* aggregate.
C6_UnitCountsPositive ==
    (call = "generate_demand_timeseries" /\ ~IsError(ret)) =>
        /\ \A r \in Rows(ret.df) : r.demand_units \in Nat /\ r.demand_units >= 1
        /\ \A a \in Rows(ret.df_daily) :
               LET group == SelectSeq(ret.df.rows,
                                LAMBDA r : r.date = a.date
                                               /\ r.component = a.component)
               IN  /\ Len(group) = 8
                   /\ a.demand_units \in Nat /\ a.demand_units >= 1
                   /\ a.demand_units =
                          SumSeq([i \in 1..8 |-> group[i].demand_units])
        /\ Len(ret.df_daily.rows) * 8 = Len(ret.df.rows)
        /\ \A r \in Rows(ret.df) :
               \E a \in Rows(ret.df_daily) :
                   a.date = r.date /\ a.component = r.component

\* C6 witness: a run whose Gaussian draw makes the demand negative before
\* the clamp and whose blood-type noise is negative, with rows of 1 unit.
C6_Witness ==
    /\ call = "generate_demand_timeseries"
    /\ ~IsError(ret)
    /\ args.np_random.normal_base = -8
    /\ args.np_random.normal_type[1] < 0
    /\ \E r \in Rows(ret.df) : r.demand_units = 1
    /\ \E a \in Rows(ret.df_daily) : a.demand_units = 8

\* C7 (as claimed): generate_donor_registry with n_donors <= 0 and
\* generate_demand_timeseries with periods <= 0 end in an error and return
\* no dataset.
C7_InvalidConfigurationRejected ==
    ((call = "generate_donor_registry" /\ args.n_donors <= 0)
        \/ (call = "generate_demand_timeseries" /\ args.periods <= 0))
    => IsError(ret)

\* C8: calculate_inventory_metrics raises nothing; utilization_rate is
\* min(demand/supply, 1) and wastage_risk is max(0, (supply-demand)/supply),
\* both 0 when the total supply is 0; shortage_risk is
\* max(0, (demand-supply)/demand), 0 when the total demand is 0; the three
\* ratios lie in [0, 1].
C8_InventoryRatios ==
    call = "calculate_inventory_metrics" =>
        LET d == ret.total_demand
            s == ret.total_supply
            u == ret.utilization_rate
            sh == ret.shortage_risk
            w == ret.wastage_risk
        IN  /\ ~IsError(u) /\ ~IsError(sh) /\ ~IsError(w)
            /\ InUnitInterval(u) /\ InUnitInterval(sh) /\ InUnitInterval(w)
            /\ s = 0 => u.num = 0 /\ w.num = 0
            /\ d = 0 => sh.num = 0
            /\ s > 0 => /\ u.num * s = Min(d, s) * u.den
                        /\ w.num * s = Max(0, s - d) * w.den
            /\ d > 0 => sh.num * d = Max(0, d - s) * sh.den

\* C8 witness: demand against a total supply of 0.
C8_Witness ==
    /\ call = "calculate_inventory_metrics"
    /\ ret.total_supply = 0
    /\ ret.total_demand > 0
    /\ ret.shortage_risk = [num |-> ret.total_demand, den |-> ret.total_demand]

\* C9: on a donor registry (a frame with the registry's columns)
\* generate_rfm_dataset returns one RFM row per donor, in the registry's
\* order, with Recency = months_since_last_donation, Frequency =
\* total_donations, Monetary = total_volume_cc, Time =
\* months_since_first_donation and donated_last_quarter = 1 iff
\* Recency <= 3; the registry is left as it was, and a second derivation
\* from it returns the same table.
C9_RfmDerivation ==
    (call = "generate_rfm_dataset"
        /\ RfmSourceColumns \subseteq args.donor_df.columns) =>
        /\ ~IsError(ret)
        /\ ret.donor_df = args.donor_df
        /\ Len(ret.rfm_df.rows) = Len(args.donor_df.rows)
        /\ \A i \in 1..Len(args.donor_df.rows) :
               LET donor == args.donor_df.rows[i]
                   rfm == ret.rfm_df.rows[i]
               IN  /\ rfm.donor_id = donor.donor_id
                   /\ rfm.Recency = donor.months_since_last_donation
                   /\ rfm.Frequency = donor.total_donations
                   /\ rfm.Monetary = donor.total_volume_cc
                   /\ rfm.Time = donor.months_since_first_donation
                   /\ rfm.donated_last_quarter \in {0, 1}
                   /\ rfm.donated_last_quarter = 1 <=> rfm.Recency <= 3
        /\ prev # None =>
               ret.rfm_df = prev.ret.rfm_df /\ args.donor_df = prev.args.donor_df

\* C9 witness: a second derivation from a registry of two donors, one with
\* Recency 3 (labelled 1) and one with Recency 4 (labelled 0).
C9_Witness ==
    /\ call = "generate_rfm_dataset"
    /\ prev # None
    /\ ~IsError(ret)
    /\ Len(ret.rfm_df.rows) = 2
    /\ \E r \in Rows(ret.rfm_df) : r.Recency = 3 /\ r.donated_last_quarter = 1
    /\ \E r \in Rows(ret.rfm_df) : r.Recency = 4 /\ r.donated_last_quarter = 0

\* C10: in a table calculate_rfm_scores has scored, a row with a lower or
\* equal Recency never has a lower R_Score, the rows of the lowest Recency
\* have R_Score 5 and the rows of the highest Recency have R_Score 1.
C10_RecencyScoreInverted ==
    (call = "calculate_rfm_scores" /\ ~IsError(ret)) =>
        /\ \A a, b \in 1..Len(ret.df) :
               ret.df[a].Recency <= ret.df[b].Recency =>
                   ret.df[a].R_Score >= ret.df[b].R_Score
        /\ \A a \in 1..Len(ret.df) :
               /\ (\A b \in 1..Len(ret.df) : ret.df[a].Recency <= ret.df[b].Recency)
                      => ret.df[a].R_Score = 5
               /\ (\A b \in 1..Len(ret.df) : ret.df[a].Recency >= ret.df[b].Recency)
                      => ret.df[a].R_Score = 1

\* C10 witness: a scored table of five rows whose Recency values take
\* R_Scores 5, 4, 2 and 1.
C10_Witness ==
    /\ call = "calculate_rfm_scores"
    /\ ~IsError(ret)
    /\ Len(ret.df) = 5
    /\ {ret.df[i].R_Score : i \in 1..5} = {5, 4, 2, 1}
    /\ \E a, b \in 1..5 :
           ret.df[a].Recency < ret.df[b].Recency
               /\ ret.df[a].R_Score > ret.df[b].R_Score

\* C11: in every supply row supply_units is the floor of demand_units times
\* the buffer factor of its iteration (a factor in [1.05, 1.20]) and is at
\* least demand_units, so utilized_units equals demand_units and no row
\* records a shortage (supply below demand).
C11_SupplyCoversDemand ==
    (call = "generate_supply_data" /\ ~IsError(ret)) =>
        \A i \in 1..Len(args.demand_df) :
            LET asked == args.demand_df[i]
                out == ret.rows[i]
            IN  /\ asked.demand_units >= 0
                /\ 1050 <= asked.buffer_factor /\ asked.buffer_factor <= 1200
                /\ out.demand_units = asked.demand_units
                /\ out.supply_units * 1000 <= asked.demand_units * asked.buffer_factor
                /\ asked.demand_units * asked.buffer_factor
                       < (out.supply_units + 1) * 1000
                /\ out.supply_units >= out.demand_units
                /\ out.utilized_units = out.demand_units

\* C11 witness: a supply table with a row whose floor leaves the supply
\* equal to a positive demand (19 units at the lowest buffer, 1.05) and a
\* row whose supply exceeds its demand.
C11_Witness ==
    /\ call = "generate_supply_data"
    /\ ~IsError(ret)
    /\ \E i \in 1..Len(args.demand_df) :
           /\ args.demand_df[i].demand_units = 19
           /\ args.demand_df[i].buffer_factor = 1050
           /\ ret.rows[i].supply_units = 19
           /\ ret.rows[i].utilized_units = 19
    /\ \E r \in Rows(ret) :
           r.supply_units > r.demand_units /\ r.utilized_units = r.demand_units
====
